---- MODULE Spec2Model ----
(***************************************************************************)
(* Model of the iMessage channel of zeroclaw (src/src/channels/imessage.rs):*)
(* the allow-list filter is_contact_allowed and the polling loop of listen  *)
(* with its cursor last_rowid, the sqlite3 text bridge (get_max_rowid,      *)
(* fetch_new_messages) and the bounded delivery queue tx.                   *)
(*                                                                         *)
(* Strings are sequences of bytes (Rust str is UTF-8): "*" is <<42>>,       *)
(* "|" is 124, "\n" is 10, "a" is 97, "A" is 65, "0".."9" are 48..57.       *)
(***************************************************************************)
EXTENDS Integers, Sequences, FiniteSets

(* --------------------------- bounds ----------------------------------- *)

\* longest allow-list of the filter specification SpecAllowed
MaxAllow == 3
\* records that arrive in the store while the model runs
MaxArrivals == 2
\* capacity of the delivery queue (chosen by the caller of listen)
QueueCap == 1

(* --------------------------- byte strings ------------------------------ *)

S_empty == <<>>
S_star == <<42>>
S_a == <<97>>
S_A == <<65>>
S_e == <<101>>
S_ab == <<97, 98>>
S_AB == <<65, 66>>
S_spaced == <<32, 97, 32>>
S_star_a == <<42, 97>>
\* U+00E9 and U+00C9 in UTF-8: letters that ASCII folding leaves alone
S_eacute == <<195, 169>>
S_Eacute == <<195, 137>>
S_imessage == <<105, 109, 101, 115, 115, 97, 103, 101>>

\* u8::to_ascii_lowercase
to_ascii_lowercase(b) == IF b >= 65 /\ b <= 90 THEN b + 32 ELSE b

\* mutant of eq_ignore_ascii_case: a plain == that sees the case
eq_case_sensitive(a, b) == a = b

\* str::eq_ignore_ascii_case: same length and bytewise equal after folding
eq_ignore_ascii_case(a, b) ==
    /\ Len(a) = Len(b)
    /\ \A i \in 1..Len(a) : to_ascii_lowercase(a[i]) = to_ascii_lowercase(b[i])

\* char::is_whitespace restricted to one-byte characters
IsWhitespace(b) == b \in {9, 10, 11, 12, 13, 32}

RECURSIVE trim_start(_)
trim_start(s) ==
    IF s # <<>> /\ IsWhitespace(s[1]) THEN trim_start(Tail(s)) ELSE s

RECURSIVE trim_end(_)
trim_end(s) ==
    IF s # <<>> /\ IsWhitespace(s[Len(s)])
    THEN trim_end(SubSeq(s, 1, Len(s) - 1))
    ELSE s

\* str::trim
trim(s) == trim_end(trim_start(s))

RECURSIVE Digits(_)
Digits(n) ==
    IF n < 10 THEN <<48 + n>> ELSE Append(Digits(n \div 10), 48 + (n % 10))

\* i64::to_string
to_string(n) == IF n < 0 THEN <<45>> \o Digits(0 - n) ELSE Digits(n)

RECURSIVE DigitsValue(_)
DigitsValue(s) ==
    IF s = <<>> THEN 0
    ELSE 10 * DigitsValue(SubSeq(s, 1, Len(s) - 1)) + (s[Len(s)] - 48)

\* str::parse::<i64>: an optional sign, then one or more decimal digits.
\* (The strings of this model are far too short to overflow an i64.)
parse_i64(s) ==
    LET signed == s # <<>> /\ s[1] \in {43, 45}
        body == IF signed THEN Tail(s) ELSE s
    IN  IF body = <<>> \/ \E i \in 1..Len(body) : body[i] < 48 \/ body[i] > 57
        THEN [ok |-> FALSE, val |-> 0]
        ELSE [ok |-> TRUE,
              val |-> IF signed /\ s[1] = 45 THEN 0 - DigitsValue(body)
                      ELSE DigitsValue(body)]

\* position of the first byte b in s, 0 when there is none
IndexOf(s, b) ==
    IF \E i \in 1..Len(s) : s[i] = b
    THEN CHOOSE i \in 1..Len(s) : s[i] = b /\ \A j \in 1..(i - 1) : s[j] # b
    ELSE 0

StripCr(s) ==
    IF s # <<>> /\ s[Len(s)] = 13 THEN SubSeq(s, 1, Len(s) - 1) ELSE s

\* str::lines: split at "\n", drop a "\r" before it, no last empty line
RECURSIVE lines(_)
lines(s) ==
    IF s = <<>> THEN <<>>
    ELSE LET nl == IndexOf(s, 10)
         IN  IF nl = 0 THEN <<StripCr(s)>>
             ELSE <<StripCr(SubSeq(s, 1, nl - 1))>>
                      \o lines(SubSeq(s, nl + 1, Len(s)))

\* str::splitn(n, sep): at most n pieces, the last one holds the rest
RECURSIVE splitn(_, _, _)
splitn(n, s, sep) ==
    LET p == IndexOf(s, sep)
    IN  IF n <= 1 \/ p = 0 THEN <<s>>
        ELSE <<SubSeq(s, 1, p - 1)>>
                 \o splitn(n - 1, SubSeq(s, p + 1, Len(s)), sep)

RECURSIVE Concat(_)
Concat(ss) == IF ss = <<>> THEN <<>> ELSE Head(ss) \o Concat(Tail(ss))

Take(s, n) == SubSeq(s, 1, IF Len(s) < n THEN Len(s) ELSE n)

(* --------------------------- access filter ----------------------------- *)

\* mutant of is_contact_allowed: the wildcard counts in the first entry only
is_contact_allowed_first_only(allowed, sender) ==
    IF allowed # <<>> /\ allowed[1] = S_star
    THEN TRUE
    ELSE \E i \in 1..Len(allowed) : eq_ignore_ascii_case(allowed[i], sender)

\* IMessageChannel::is_contact_allowed
is_contact_allowed(allowed, sender) ==
    IF \E i \in 1..Len(allowed) : allowed[i] = S_star
    THEN TRUE
    ELSE \E i \in 1..Len(allowed) : eq_ignore_ascii_case(allowed[i], sender)

(* --------------------------- state ------------------------------------- *)

VARIABLES
    allowed_contacts, \* self.allowed_contacts
    store,            \* the message table of chat.db, store[i].rowid = i
    arrived,          \* records added to the store since Init
    pc,               \* where listen stands
    last_rowid,       \* the poll cursor of listen
    new_messages,     \* "none", "Ok" or "Err": the Result of the last fetch
    messages,         \* the Vec of an Ok fetch, rows <<rowid, sender, text>>
    origins,          \* history: origins[i] is the store row messages[i] came from
    idx,              \* the next row of messages the for loop takes
    since_rowid,      \* the since_rowid argument of the last fetch
    fetch_len,        \* history: Len(store) when the last fetch ran
    msg,              \* the ChannelMessage being sent
    cursor_was,       \* history: last_rowid when the for body took the row of msg
    queue,            \* the buffer of the mpsc channel behind tx
    rx_open,          \* the Receiver is alive
    emitted,          \* history: every message tx.send accepted, in order
    start_max,        \* history: the largest position in the store at listen start
    seeded,           \* history: "none", "ok" or "failed": how the seed query went
    call_sender,      \* the sender argument of a direct is_contact_allowed call
    call_ret,         \* its result "true" or "false", "none" before the call
    send_ret,         \* "Ok" or "Err": what the last call of send returned
    weather           \* a call of WeatherApiTool::execute: [call, ret]

vars ==
    <<allowed_contacts, store, arrived, pc, last_rowid, new_messages, messages,
      origins, idx, since_rowid, fetch_len, msg, cursor_was, queue, rx_open,
      emitted, start_max, seeded, call_sender, call_ret, send_ret, weather>>

listen_vars ==
    <<pc, last_rowid, new_messages, messages, origins, idx, since_rowid,
      fetch_len, msg, cursor_was, emitted, start_max, seeded>>

(* --------------------------- the store and sqlite3 --------------------- *)

\* LIMIT 20 of the fetch query
PageLimit == 20

\* a row of message JOIN handle: m.ROWID, h.id, m.text, m.is_from_me
Rec(id, h, t, me, null) ==
    [rowid |-> id, handle |-> h, text |-> t, is_from_me |-> me, text_null |-> null]

\* the rows the fetch query selects, in ROWID order, at most PageLimit
Selected(db, since) ==
    LET Wanted(r) == r.rowid > since /\ ~r.is_from_me /\ ~r.text_null
    IN  Take(SelectSeq(db, Wanted), PageLimit)

\* sqlite3 -separator "|" in list mode: the columns as they are, then "\n"
FormatRow(r) ==
    to_string(r.rowid) \o <<124>> \o r.handle \o <<124>> \o r.text \o <<10>>

Stdout(rows) == Concat([i \in 1..Len(rows) |-> FormatRow(rows[i])])

\* the loop over stdout.lines(): a line counts when it has three fields
\* and the first one parses as an i64; any other line is passed over
RECURSIVE ParseLines(_)
ParseLines(ls) ==
    IF ls = <<>> THEN <<>>
    ELSE LET parts == splitn(3, Head(ls), 124)
             rowid == parse_i64(parts[1])
         IN  IF Len(parts) = 3 /\ rowid.ok
             THEN <<<<rowid.val, parts[2], parts[3]>>>> \o ParseLines(Tail(ls))
             ELSE ParseLines(Tail(ls))

\* fetch_new_messages when sqlite3 ran and exited with status 0
fetch_new_messages(db, since) == ParseLines(lines(Stdout(Selected(db, since))))

\* history: the store row behind each row of fetch_new_messages
RECURSIVE RowOrigins(_)
RowOrigins(rows) ==
    IF rows = <<>> THEN <<>>
    ELSE [i \in 1..Len(ParseLines(lines(FormatRow(Head(rows))))) |-> Head(rows).rowid]
             \o RowOrigins(Tail(rows))

fetch_origins(db, since) == RowOrigins(Selected(db, since))

\* stdout of SELECT MAX(ROWID) FROM message WHERE is_from_me = 0
MaxRowidStdout(db) ==
    LET S == {i \in 1..Len(db) : ~db[i].is_from_me}
    IN  IF S = {} THEN <<10>>
        ELSE to_string(CHOOSE i \in S : \A j \in S : j <= i) \o <<10>>

\* mutant of get_max_rowid: the parse without the trim sees the "\n"
get_max_rowid_untrimmed(db) ==
    LET r == parse_i64(MaxRowidStdout(db))
    IN  IF r.ok THEN r.val ELSE 0

\* get_max_rowid when sqlite3 ran: Ok(stdout.trim().parse().unwrap_or(0))
get_max_rowid(db) ==
    LET r == parse_i64(trim(MaxRowidStdout(db)))
    IN  IF r.ok THEN r.val ELSE 0

(* --------------------------- inputs ------------------------------------ *)

T_hi == <<104, 105>>
T_blank == <<32>>
T_pipe == <<97, 124, 98>>
T_multi == <<120, 10, 121>>
\* a text whose second line reads "<k>|a|y"
T_forged(k) == <<120, 10>> \o to_string(k) \o <<124, 97, 124, 121>>

ForgedIds == {1, 3}

\* what a new record may be: handle, text, is_from_me, text IS NULL
ArrivalKinds ==
    {<<S_a, T_hi, FALSE, FALSE>>, <<S_e, T_hi, FALSE, FALSE>>}
        \cup {<<S_e, T_forged(k), FALSE, FALSE>> : k \in ForgedIds}

\* a store with history: texts with "|" and "\n", an empty text, a NULL
\* text, a sent message
History ==
    <<Rec(1, S_a, T_pipe, FALSE, FALSE), Rec(2, S_e, T_hi, FALSE, FALSE),
      Rec(3, S_A, T_multi, FALSE, FALSE), Rec(4, S_A, S_empty, FALSE, FALSE),
      Rec(5, S_a, S_empty, FALSE, TRUE), Rec(6, S_a, T_hi, TRUE, FALSE)>>

\* more pending records than one page holds
Backlog ==
    [i \in 1..(PageLimit + 1) |->
        IF i \in {1, PageLimit + 1} THEN Rec(i, S_a, T_hi, FALSE, FALSE)
        ELSE Rec(i, S_e, T_blank, FALSE, FALSE)]

InitialStores == {<<>>, History, Backlog}

ListenAllowLists == {<<>>, <<S_a>>, <<S_e, S_star>>}

Patterns ==
    {S_empty, S_star, S_a, S_A, S_ab, S_AB, S_spaced, S_star_a, S_eacute, S_Eacute}

RECURSIVE SeqsUpTo(_, _)
SeqsUpTo(S, n) ==
    IF n = 0 THEN {<<>>}
    ELSE LET shorter == SeqsUpTo(S, n - 1)
         IN  shorter \cup {Append(s, x) : s \in shorter, x \in S}

NoMsg == [id |-> <<>>, sender |-> <<>>, content |-> <<>>, channel |-> <<>>]

(* --------------------------- WeatherApiTool ---------------------------- *)

\* what execute is given: the two places a key may come from, the query,
\* the days argument, and what the network does with the request
WeatherCalls ==
    [arg_api_key : {"absent", "blank", "key"},
     env_api_key : {"absent", "blank", "key"},
     query : {"absent", "blank", "q"},
     days : {[present |-> FALSE, val |-> 0]}
                \cup {[present |-> TRUE, val |-> d] : d \in {0, 1, 3, 9}},
     send : {"ok", "err"},
     status : {200, 204, 401, 500},
     text_ok : BOOLEAN,
     body : {"current_json", "forecast_json", "other_json", "error_json",
             "not_json"}]

NoCall ==
    [arg_api_key |-> "absent", env_api_key |-> "absent", query |-> "absent",
     days |-> [present |-> FALSE, val |-> 0], send |-> "ok", status |-> 200,
     text_ok |-> TRUE, body |-> "not_json"]

\* execute has not returned
NoReturn == [kind |-> "none", success |-> FALSE, output |-> "", error |-> "None"]

WeatherIdle == [call |-> NoCall, ret |-> NoReturn]

\* return Err(anyhow!(...)) and the ? operator
HardErr(text) == [kind |-> "Err", success |-> FALSE, output |-> "", error |-> text]

\* Ok(ToolResult { success: false, output: String::new(), error: Some(..) })
Failed(text) == [kind |-> "Ok", success |-> FALSE, output |-> "", error |-> text]

\* Ok(ToolResult { success: true, output: summary, error: None })
Succeeded(summary) ==
    [kind |-> "Ok", success |-> TRUE, output |-> summary, error |-> "None"]

\* StatusCode::is_success
StatusIsSuccess(status) == status >= 200 /\ status < 300

\* raw_days.max(1).min(7)
NormalizedDays(days) ==
    LET raw_days == IF days.present THEN days.val ELSE 1
        low == IF raw_days < 1 THEN 1 ELSE raw_days
    IN  IF low > 7 THEN 7 ELSE low

\* summarize_current / summarize_forecast, or the pretty-printed body
Summary(body, normalized_days) ==
    IF normalized_days > 1
    THEN IF body = "forecast_json" THEN "forecast summary" ELSE "pretty body"
    ELSE IF body = "current_json" THEN "current summary" ELSE "pretty body"

\* mutant of execute: a non-success status is raised as an error
execute_status_raises(c) ==
    IF c.arg_api_key # "key" /\ c.env_api_key # "key"
    THEN HardErr("WeatherAPI key not provided")
    ELSE IF c.query # "q" THEN HardErr("Missing 'query' parameter")
    ELSE IF c.send = "err" THEN Failed("Some(WeatherAPI request failed)")
    ELSE IF ~c.text_ok THEN Failed("Some(Failed to read WeatherAPI response)")
    ELSE IF ~StatusIsSuccess(c.status) THEN HardErr("WeatherAPI error")
    ELSE IF c.body = "not_json"
         THEN HardErr("Failed to parse WeatherAPI response")
    ELSE Succeeded(Summary(c.body, NormalizedDays(c.days)))

\* WeatherApiTool::execute
execute(c) ==
    IF c.arg_api_key # "key" /\ c.env_api_key # "key"
    THEN HardErr("WeatherAPI key not provided")
    ELSE IF c.query # "q" THEN HardErr("Missing 'query' parameter")
    ELSE IF c.send = "err" THEN Failed("Some(WeatherAPI request failed)")
    ELSE IF ~c.text_ok THEN Failed("Some(Failed to read WeatherAPI response)")
    ELSE IF ~StatusIsSuccess(c.status) THEN Failed("Some(WeatherAPI error)")
    ELSE IF c.body = "not_json"
         THEN HardErr("Failed to parse WeatherAPI response")
    ELSE Succeeded(Summary(c.body, NormalizedDays(c.days)))

(* --------------------------- listen ------------------------------------ *)

Init ==
    /\ allowed_contacts \in ListenAllowLists
    /\ store \in InitialStores
    /\ arrived = 0
    /\ pc = "start"
    /\ last_rowid = 0
    /\ new_messages = "none"
    /\ messages = <<>>
    /\ origins = <<>>
    /\ idx = 1
    /\ since_rowid = 0
    /\ fetch_len = 0
    /\ msg = NoMsg
    /\ cursor_was = 0
    /\ queue = <<>>
    /\ rx_open = TRUE
    /\ emitted = <<>>
    /\ start_max = 0
    /\ seeded = "none"
    /\ call_sender = <<>>
    /\ call_ret = "none"
    /\ send_ret = "none"
    /\ weather = WeatherIdle

\* listen up to the seed query: the home directory and chat.db must exist
ListenStart ==
    /\ pc = "start"
    /\ \E env \in {"no_home", "no_db", "ok"} :
          pc' = IF env = "ok" THEN "seed" ELSE "ret_err"
    /\ start_max' = Len(store)
    /\ UNCHANGED <<allowed_contacts, store, arrived, last_rowid, new_messages,
                   messages, origins, idx, since_rowid, fetch_len, msg, cursor_was, queue,
                   rx_open, emitted, seeded, call_sender, call_ret, send_ret, weather>>

\* mutant of Seed: get_max_rowid(&db_path).await?, the error ends listen
Seed_Propagate ==
    /\ pc = "seed"
    /\ \E ran \in BOOLEAN :
          /\ last_rowid' = IF ran THEN get_max_rowid(store) ELSE 0
          /\ seeded' = IF ran THEN "ok" ELSE "failed"
          /\ pc' = IF ran THEN "sleep" ELSE "ret_err"
    /\ UNCHANGED <<allowed_contacts, store, arrived, new_messages, messages,
                   origins, idx, since_rowid, fetch_len, msg, cursor_was, queue, rx_open,
                   emitted, start_max, call_sender, call_ret, send_ret, weather>>

\* let mut last_rowid = get_max_rowid(&db_path).await.unwrap_or(0);
\* the query fails when sqlite3 cannot be run, and prints nothing when it
\* exits with an error: both leave 0
Seed ==
    /\ pc = "seed"
    /\ \E ran \in BOOLEAN :
          /\ last_rowid' = IF ran THEN get_max_rowid(store) ELSE 0
          /\ seeded' = IF ran THEN "ok" ELSE "failed"
    /\ pc' = "sleep"
    /\ UNCHANGED <<allowed_contacts, store, arrived, new_messages, messages,
                   origins, idx, since_rowid, fetch_len, msg, cursor_was, queue, rx_open,
                   emitted, start_max, call_sender, call_ret, send_ret, weather>>

\* tokio::time::sleep(poll_interval_secs) at the top of the loop
Tick ==
    /\ pc = "sleep"
    /\ pc' = "fetch"
    /\ new_messages' = "none"
    /\ UNCHANGED <<allowed_contacts, store, arrived, last_rowid, messages,
                   origins, idx, since_rowid, fetch_len, msg, cursor_was, queue, rx_open,
                   emitted, start_max, seeded, call_sender, call_ret, send_ret, weather>>

\* fetch_new_messages(&db_path, last_rowid) returns Ok(messages)
FetchOk ==
    /\ pc = "fetch"
    /\ new_messages' = "Ok"
    /\ messages' = fetch_new_messages(store, last_rowid)
    /\ origins' = fetch_origins(store, last_rowid)
    /\ idx' = 1
    /\ since_rowid' = last_rowid
    /\ fetch_len' = Len(store)
    /\ pc' = "for"
    /\ UNCHANGED <<allowed_contacts, store, arrived, last_rowid, msg, cursor_was, queue,
                   rx_open, emitted, start_max, seeded, call_sender, call_ret, send_ret, weather>>

\* mutant of FetchErr: the error is passed on with ? and ends listen
FetchErr_Fatal ==
    /\ pc = "fetch"
    /\ new_messages' = "Err"
    /\ pc' = "ret_err"
    /\ UNCHANGED <<allowed_contacts, store, arrived, last_rowid, messages,
                   origins, idx, since_rowid, fetch_len, msg, cursor_was, queue,
                   rx_open, emitted, start_max, seeded, call_sender, call_ret, send_ret, weather>>

\* fetch_new_messages returns Err (sqlite3 cannot be run, or exits non-zero):
\* the Err arm logs and the loop goes back to its sleep
FetchErr ==
    /\ pc = "fetch"
    /\ new_messages' = "Err"
    /\ pc' = "sleep"
    /\ UNCHANGED <<allowed_contacts, store, arrived, last_rowid, messages,
                   origins, idx, since_rowid, fetch_len, msg, cursor_was, queue, rx_open,
                   emitted, start_max, seeded, call_sender, call_ret, send_ret, weather>>

\* mutant of RowOutcome: the access filter is missing
RowOutcome_NoAccess(allowed, row) ==
    IF trim(row[3]) = <<>> THEN "skip" ELSE "emit"

\* mutant of RowOutcome: text.is_empty() without the trim
RowOutcome_NoTrim(allowed, row) ==
    IF ~is_contact_allowed(allowed, row[2]) THEN "skip"
    ELSE IF row[3] = <<>> THEN "skip"
    ELSE "emit"

\* the two filters of the for body: "skip" is continue, "emit" goes on to send
RowOutcome(allowed, row) ==
    IF ~is_contact_allowed(allowed, row[2]) THEN "skip"
    ELSE IF trim(row[3]) = <<>> THEN "skip"
    ELSE "emit"

\* if rowid > last_rowid { last_rowid = rowid; }
AdvanceCursor(cursor, rowid) == IF rowid > cursor THEN rowid ELSE cursor

\* mutant of CursorAfterRow: the cursor moves behind the two filters
CursorAfterRow_OnEmit(allowed, cursor, row) ==
    IF RowOutcome(allowed, row) = "emit" THEN AdvanceCursor(cursor, row[1])
    ELSE cursor

\* the cursor after the for body took row: it moves before the two filters
CursorAfterRow(allowed, cursor, row) == AdvanceCursor(cursor, row[1])

\* ChannelMessage { id, sender, content, channel } (the timestamp is left out)
ChannelMessage(row) ==
    [id |-> to_string(row[1]), sender |-> row[2], content |-> row[3],
     channel |-> S_imessage]

\* one turn of for (rowid, sender, text) in messages, up to tx.send
ForBody ==
    /\ pc = "for"
    /\ idx <= Len(messages)
    /\ last_rowid' = CursorAfterRow(allowed_contacts, last_rowid, messages[idx])
    /\ IF RowOutcome(allowed_contacts, messages[idx]) = "emit"
       THEN /\ msg' = ChannelMessage(messages[idx])
            /\ cursor_was' = last_rowid
            /\ pc' = "send"
            /\ idx' = idx
       ELSE /\ msg' = msg
            /\ cursor_was' = cursor_was
            /\ pc' = "for"
            /\ idx' = idx + 1
    /\ UNCHANGED <<allowed_contacts, store, arrived, new_messages, messages,
                   origins, since_rowid, fetch_len, queue, rx_open, emitted,
                   start_max, seeded, call_sender, call_ret, send_ret, weather>>

\* the for loop is over: back to the sleep at the top of the loop
ForEnd ==
    /\ pc = "for"
    /\ idx > Len(messages)
    /\ pc' = "sleep"
    /\ messages' = <<>>
    /\ origins' = <<>>
    /\ idx' = 1
    /\ new_messages' = "none"
    /\ since_rowid' = 0
    /\ fetch_len' = 0
    /\ UNCHANGED <<allowed_contacts, store, arrived, last_rowid, msg, cursor_was, queue,
                   rx_open, emitted, start_max, seeded, call_sender, call_ret, send_ret, weather>>

\* mutant of SendOk: try_send, which gives the message up when the buffer
\* is full
SendOk_TrySend ==
    /\ pc = "send"
    /\ rx_open
    /\ IF Len(queue) < QueueCap
       THEN /\ queue' = Append(queue, msg)
            /\ emitted' = Append(emitted,
                                 [msg |-> msg, rowid |-> messages[idx][1],
                                  src |-> origins[idx], cursor |-> cursor_was])
       ELSE /\ queue' = queue
            /\ emitted' = emitted
    /\ msg' = NoMsg
    /\ cursor_was' = 0
    /\ idx' = idx + 1
    /\ pc' = "for"
    /\ UNCHANGED <<allowed_contacts, store, arrived, last_rowid, new_messages,
                   messages, origins, since_rowid, fetch_len, rx_open,
                   start_max, seeded, call_sender, call_ret, send_ret, weather>>

\* tx.send(msg).await succeeds once the buffer has room
SendOk ==
    /\ pc = "send"
    /\ rx_open
    /\ Len(queue) < QueueCap
    /\ queue' = Append(queue, msg)
    /\ emitted' = Append(emitted,
                         [msg |-> msg, rowid |-> messages[idx][1],
                          src |-> origins[idx], cursor |-> cursor_was])
    /\ msg' = NoMsg
    /\ cursor_was' = 0
    /\ idx' = idx + 1
    /\ pc' = "for"
    /\ UNCHANGED <<allowed_contacts, store, arrived, last_rowid, new_messages,
                   messages, origins, since_rowid, fetch_len, rx_open,
                   start_max, seeded, call_sender, call_ret, send_ret, weather>>

\* mutant of SendClosed: tx.send(msg).await?, the SendError ends listen
SendClosed_Propagate ==
    /\ pc = "send"
    /\ ~rx_open
    /\ pc' = "ret_err"
    /\ msg' = NoMsg
    /\ cursor_was' = 0
    /\ UNCHANGED <<allowed_contacts, store, arrived, last_rowid, new_messages,
                   messages, origins, idx, since_rowid, fetch_len, queue,
                   rx_open, emitted, start_max, seeded, call_sender, call_ret, send_ret, weather>>

\* tx.send(msg).await is Err, the receiver is gone: return Ok(())
SendClosed ==
    /\ pc = "send"
    /\ ~rx_open
    /\ pc' = "ret_ok"
    /\ msg' = NoMsg
    /\ cursor_was' = 0
    /\ UNCHANGED <<allowed_contacts, store, arrived, last_rowid, new_messages,
                   messages, origins, idx, since_rowid, fetch_len, queue,
                   rx_open, emitted, start_max, seeded, call_sender, call_ret, send_ret, weather>>

(* --------------------------- environment ------------------------------- *)

\* Messages.app stores a record under the next ROWID
Arrive ==
    /\ arrived < MaxArrivals
    /\ \E k \in ArrivalKinds :
          store' = Append(store, Rec(Len(store) + 1, k[1], k[2], k[3], k[4]))
    /\ arrived' = arrived + 1
    /\ UNCHANGED <<allowed_contacts, queue, rx_open, call_sender, call_ret, send_ret, weather>>
    /\ UNCHANGED listen_vars

\* the dispatcher takes the oldest message from the queue
Recv ==
    /\ rx_open
    /\ queue # <<>>
    /\ queue' = Tail(queue)
    /\ UNCHANGED <<allowed_contacts, store, arrived, rx_open, call_sender, call_ret, send_ret, weather>>
    /\ UNCHANGED listen_vars

\* the dispatcher drops the Receiver, and the buffered messages with it
CloseRx ==
    /\ rx_open
    /\ rx_open' = FALSE
    /\ queue' = <<>>
    /\ UNCHANGED <<allowed_contacts, store, arrived, call_sender, call_ret, send_ret, weather>>
    /\ UNCHANGED listen_vars

Next ==
    \/ ListenStart
    \/ Seed
    \/ Tick
    \/ FetchOk
    \/ FetchErr
    \/ ForBody
    \/ ForEnd
    \/ SendOk
    \/ SendClosed
    \/ Arrive
    \/ Recv
    \/ CloseRx

Spec == Init /\ [][Next]_vars

(* --------------------------- the filter alone -------------------------- *)

InitAllowed ==
    /\ allowed_contacts \in SeqsUpTo(Patterns, MaxAllow)
    /\ call_sender \in Patterns
    /\ call_ret = "none"
    /\ send_ret = "none"
    /\ weather = WeatherIdle
    /\ store = <<>>
    /\ arrived = 0
    /\ pc = "start"
    /\ last_rowid = 0
    /\ new_messages = "none"
    /\ messages = <<>>
    /\ origins = <<>>
    /\ idx = 1
    /\ since_rowid = 0
    /\ fetch_len = 0
    /\ msg = NoMsg
    /\ cursor_was = 0
    /\ queue = <<>>
    /\ rx_open = TRUE
    /\ emitted = <<>>
    /\ start_max = 0
    /\ seeded = "none"

\* a call self.is_contact_allowed(&sender)
CallIsContactAllowed ==
    /\ call_ret = "none"
    /\ call_ret' = IF is_contact_allowed(allowed_contacts, call_sender)
                   THEN "true" ELSE "false"
    /\ UNCHANGED <<allowed_contacts, store, arrived, queue, rx_open, call_sender, send_ret, weather>>
    /\ UNCHANGED listen_vars

NextAllowed == CallIsContactAllowed

SpecAllowed == InitAllowed /\ [][NextAllowed]_vars

(* --------------------------- send beside listen ----------------------- *)

\* mutant of SendCall: a failed send starts the polling over
SendCall_ResetsCursor ==
    /\ \E ok \in BOOLEAN :
          /\ send_ret' = IF ok THEN "Ok" ELSE "Err"
          /\ last_rowid' = IF ok THEN last_rowid ELSE 0
    /\ UNCHANGED <<allowed_contacts, store, arrived, pc, new_messages, messages,
                   origins, idx, since_rowid, fetch_len, msg, cursor_was, queue,
                   rx_open, emitted, start_max, seeded, call_sender, call_ret,
                   weather>>

\* a call of send(message, target): the script goes to osascript, whose exit
\* status decides between Ok(()) and the error; self is only read
SendCall ==
    /\ \E ok \in BOOLEAN : send_ret' = IF ok THEN "Ok" ELSE "Err"
    /\ UNCHANGED <<allowed_contacts, store, arrived, queue, rx_open,
                   call_sender, call_ret, weather>>
    /\ UNCHANGED listen_vars

NextSend ==
    \/ Next
    \/ SendCall

\* the stores of one page: paging plays no part in what send does
InitSend == Init /\ store # Backlog

SpecSend == InitSend /\ [][NextSend]_vars

(* --------------------------- execute alone ----------------------------- *)

InitWeather ==
    /\ weather \in [call : WeatherCalls, ret : {NoReturn}]
    /\ allowed_contacts = <<>>
    /\ call_sender = <<>>
    /\ call_ret = "none"
    /\ send_ret = "none"
    /\ store = <<>>
    /\ arrived = 0
    /\ pc = "start"
    /\ last_rowid = 0
    /\ new_messages = "none"
    /\ messages = <<>>
    /\ origins = <<>>
    /\ idx = 1
    /\ since_rowid = 0
    /\ fetch_len = 0
    /\ msg = NoMsg
    /\ cursor_was = 0
    /\ queue = <<>>
    /\ rx_open = TRUE
    /\ emitted = <<>>
    /\ start_max = 0
    /\ seeded = "none"

\* a call self.execute(args)
CallExecute ==
    /\ weather.ret.kind = "none"
    /\ weather' = [weather EXCEPT !.ret = execute(weather.call)]
    /\ UNCHANGED <<allowed_contacts, store, arrived, queue, rx_open,
                   call_sender, call_ret, send_ret>>
    /\ UNCHANGED listen_vars

NextWeather == CallExecute

SpecWeather == InitWeather /\ [][NextWeather]_vars

(* --------------------------- C1, C2: the filter ------------------------ *)

\* the allow-list holds the literal entry "*"
HasStar(list) == \E i \in DOMAIN list : list[i] = <<42>>

\* a string with its ASCII capitals A..Z replaced by a..z
AsciiFold(s) == [i \in DOMAIN s |-> IF s[i] \in 65..90 THEN s[i] + 32 ELSE s[i]]

\* C1: whenever the allow-list holds "*", alone or among other entries and at
\* any index, is_contact_allowed answers true, whatever the sender is, the
\* empty string included.
C1_WildcardAllowsAll ==
    (call_ret # "none" /\ HasStar(allowed_contacts)) => call_ret = "true"

\* C1 happens: "*" stands behind another entry, the sender is the empty
\* string, no entry equals it, and the answer is true
C1_Witness ==
    /\ call_ret = "true"
    /\ Len(allowed_contacts) >= 2
    /\ allowed_contacts[1] # <<42>>
    /\ HasStar(allowed_contacts)
    /\ call_sender = <<>>
    /\ \A i \in DOMAIN allowed_contacts : allowed_contacts[i] # <<>>

\* C2: without "*" in the allow-list, is_contact_allowed answers true exactly
\* when some entry and the sender are the same string once ASCII capitals are
\* folded: whole strings, nothing trimmed, no prefix or substring; so the
\* empty list denies everyone and " a " does not admit "a".
C2_ExactFoldedMatch ==
    (call_ret # "none" /\ ~HasStar(allowed_contacts)) =>
        /\ (call_ret = "true") <=>
               (\E i \in DOMAIN allowed_contacts :
                    AsciiFold(allowed_contacts[i]) = AsciiFold(call_sender))
        /\ (allowed_contacts = <<>> => call_ret = "false")
        /\ (allowed_contacts = <<S_spaced>> /\ call_sender = S_a
               => call_ret = "false")

\* C2 happens: the only entry that admits the sender differs from it in case
C2_Witness ==
    /\ call_ret = "true"
    /\ ~HasStar(allowed_contacts)
    /\ call_sender = S_ab
    /\ \E i \in DOMAIN allowed_contacts : allowed_contacts[i] = S_AB
    /\ \A i \in DOMAIN allowed_contacts : allowed_contacts[i] # S_ab

(* --------------------------- C3..C10: the listen loop ------------------ *)

\* the history variable origins names one store row per fetched row, and the
\* rows in hand are what the fetch of the store of that time returns
OriginsAligned ==
    /\ Len(origins) = Len(messages)
    /\ pc \in {"for", "send"} =>
           messages = fetch_new_messages(SubSeq(store, 1, fetch_len), since_rowid)

\* every message tx.send accepted, the ones in the queue and the one being sent
Built ==
    {emitted[i].msg : i \in DOMAIN emitted} \cup {queue[i] : i \in DOMAIN queue}
        \cup (IF pc = "send" THEN {msg} ELSE {})

\* s is empty or holds white space only
Blank(s) == \A i \in DOMAIN s : s[i] \in {9, 10, 11, 12, 13, 32}

\* C3: every message built for the delivery queue, sent or about to be sent,
\* has a sender that is_contact_allowed admits: a fetched row with a sender
\* the allow-list denies is never put in the queue.
C3_OnlyAllowedSenders ==
    \A m \in Built : is_contact_allowed(allowed_contacts, m.sender)

\* C3 happens: a message went out, after the loop passed over a fetched row
\* with a text but a sender the allow-list denies
C3_Witness ==
    /\ pc = "for"
    /\ emitted # <<>>
    /\ \E j \in 1..(idx - 1) :
          /\ ~is_contact_allowed(allowed_contacts, messages[j][2])
          /\ ~Blank(messages[j][3])

\* C4: no message built for the delivery queue has an empty or
\* white-space-only content, also when its sender is admitted by "*".
C4_NoBlankContent ==
    \A m \in Built : ~Blank(m.content)

\* C4 happens: under an allow-list with "*" a message went out, after the
\* loop passed over a fetched row whose text is white space only
C4_Witness ==
    /\ pc = "for"
    /\ HasStar(allowed_contacts)
    /\ emitted # <<>>
    /\ \E j \in 1..(idx - 1) : messages[j][3] # <<>> /\ Blank(messages[j][3])

\* C5 as claimed: no record at a position <= M, the largest position in
\* the store when listen started, is ever emitted.
C5_Original ==
    \A i \in DOMAIN emitted : emitted[i].src > start_max

\* C5, amended: when the seed query succeeded, every emitted message comes
\* from a store record at a position > M, the largest position in the store
\* when listen started, and the cursor is never below the largest incoming
\* position of that time.
C5_SeededCursorHidesHistory ==
    seeded = "ok" =>
        /\ \A i \in DOMAIN emitted : emitted[i].src > start_max
        /\ \A i \in 1..start_max : ~store[i].is_from_me => last_rowid >= i

\* C5 happens: the store held an admitted record with a text when listen
\* started, the seed query succeeded, and a later record was emitted
C5_Witness ==
    /\ seeded = "ok"
    /\ emitted # <<>>
    /\ \E i \in 1..start_max :
          /\ ~store[i].is_from_me
          /\ ~store[i].text_null
          /\ is_contact_allowed(allowed_contacts, store[i].handle)
          /\ ~Blank(store[i].text)

\* the for loop has taken every row of the fetch result
LoopDone == pc = "for" /\ idx > Len(messages)

\* the fetch result is p1 < p2 < ... < pn, all beyond the cursor of the fetch
AscendingFetch ==
    /\ messages # <<>>
    /\ \A i \in DOMAIN messages : messages[i][1] > since_rowid
    /\ \A i, j \in DOMAIN messages : i < j => messages[i][1] < messages[j][1]

\* what a second fetch returns from the store as the last fetch saw it
Refetch == fetch_new_messages(SubSeq(store, 1, fetch_len), last_rowid)

\* C6 as claimed: after a poll step over p1 < ... < pn the cursor is pn and
\* a second poll of the unchanged store returns no records.
C6_Original ==
    (LoopDone /\ AscendingFetch) =>
        /\ last_rowid = messages[Len(messages)][1]
        /\ Refetch = <<>>

\* C6, amended: after a poll step over p1 < ... < pn, all beyond the cursor,
\* the cursor is pn whether or not the rows passed the two filters; if the
\* fetch result had fewer rows than the page limit, a second poll of the
\* unchanged store returns no records (a full page may have left records
\* behind, and the second poll returns those).
C6_CursorReachesLastRow ==
    (LoopDone /\ AscendingFetch) =>
        /\ last_rowid = messages[Len(messages)][1]
        /\ Len(messages) < PageLimit => Refetch = <<>>

\* C6 happens: a poll step over two or more ascending rows has ended, one
\* of them was passed over by a filter, and the cursor stands at the last
C6_Witness ==
    /\ LoopDone
    /\ AscendingFetch
    /\ Len(messages) >= 2
    /\ Len(messages) < PageLimit
    /\ RowOutcome(allowed_contacts, messages[Len(messages)]) = "skip"
    /\ \E j \in DOMAIN messages : RowOutcome(allowed_contacts, messages[j]) = "emit"
    /\ last_rowid = messages[Len(messages)][1]

\* C7 as claimed: the cursor never decreases, and a fetched row whose
\* identifier is not beyond the cursor of the moment is never emitted.
C7_Claim ==
    [][/\ last_rowid' >= last_rowid
       /\ \A i \in DOMAIN emitted' : emitted'[i].rowid > emitted'[i].cursor]_vars

\* C8 as claimed: the ids of the messages one run of listen emits are
\* pairwise distinct.
C8_Claim ==
    \A i, j \in DOMAIN emitted : i # j => emitted[i].msg.id # emitted[j].msg.id

\* C9 as claimed: the emitted messages are strictly ascending in position,
\* within a poll step and across ticks.
C9_Claim ==
    \A i, j \in DOMAIN emitted : i < j => emitted[i].rowid < emitted[j].rowid

\* C10: a poll step whose fetch fails leaves the cursor, the emitted
\* messages and the queue as they were and takes listen back to its sleep
\* instead of returning; the step after that sleep is the next fetch, from
\* the same cursor.
C10_FailedFetchIsHarmless ==
    [][/\ (pc = "fetch" /\ new_messages' = "Err") =>
              /\ last_rowid' = last_rowid
              /\ emitted' = emitted
              /\ queue' = queue
              /\ pc' = "sleep"
       /\ (pc = "sleep" /\ new_messages = "Err" /\ pc' # pc) =>
              /\ pc' = "fetch"
              /\ last_rowid' = last_rowid
       /\ (pc = "fetch" /\ pc' = "for") => since_rowid' = last_rowid]_vars

\* C10 happens: a fetch failed while records beyond the cursor were waiting,
\* and listen sleeps with its cursor where it was
C10_Witness ==
    /\ pc = "sleep"
    /\ new_messages = "Err"
    /\ last_rowid > 0
    /\ emitted # <<>>
    /\ Selected(store, last_rowid) # <<>>

(* --------------------------- listen under fair scheduling -------------- *)

\* a channel that admits "a", over a store that is empty at first
InitFair == Init /\ allowed_contacts = <<S_a>> /\ store = <<>>

\* a fetch that is tried again and again succeeds in the end: strong
\* fairness of FetchOk, which is enabled exactly when pc = "fetch" and is
\* the only step from "fetch" to "for"
FetchesEventuallySucceed ==
    ([]<>(pc = "fetch")) => ([]<><<pc = "fetch" /\ pc' = "for">>_vars)

\* the runtime keeps polling the listen task: each step it can take it
\* takes; and the dispatcher keeps receiving while it holds the Receiver
SpecFair ==
    /\ InitFair
    /\ [][Next]_vars
    /\ WF_vars(ListenStart)
    /\ WF_vars(Seed)
    /\ WF_vars(Tick)
    /\ FetchesEventuallySucceed
    /\ WF_vars(ForBody)
    /\ WF_vars(ForEnd)
    /\ WF_vars(SendOk)
    /\ WF_vars(SendClosed)
    /\ WF_vars(Recv)

(* --------------------------- C11: the closed sink ---------------------- *)

\* listen is past its start checks and has not returned
Running == pc \in {"seed", "sleep", "fetch", "for", "send"}

\* C11 as claimed: once the Receiver is closed, a running listen returns
\* Ok, also when no admitted record with a text arrives after the close.
C11_Claim ==
    []((~rx_open /\ Running) => <>(pc = "ret_ok"))

(* --------------------------- C12: malformed output --------------------- *)

\* the stdout of the fetch whose rows the for loop is going through: no
\* record of the store changes, so the store as long as it was then gives it
FetchStdout == Stdout(Selected(SubSeq(store, 1, fetch_len), since_rowid))

\* a line that is not position|sender|text with an integer position
MalformedLine(line) ==
    LET parts == splitn(3, line, 124)
    IN  Len(parts) # 3 \/ ~parse_i64(parts[1]).ok

MalformedOutput ==
    \E i \in DOMAIN lines(FetchStdout) : MalformedLine(lines(FetchStdout)[i])

\* C12 as claimed: when the output of the query is malformed, the poll step
\* is a failed fetch: the for loop over its rows leaves the cursor where it
\* was and emits none of its rows.
C12_Claim ==
    [][(pc \in {"for", "send"} /\ MalformedOutput)
          => (last_rowid' = last_rowid /\ emitted' = emitted)]_vars

(* --------------------------- C13: the full queue ----------------------- *)

\* C13: the queue never holds more than QueueCap messages; while it is full
\* and the Receiver is open, listen stays at its send; and while the
\* Receiver is open listen leaves a send only by handing the message, which
\* passed both filters, to the queue.
C13_FullQueueSuspends ==
    /\ [](Len(queue) <= QueueCap)
    /\ [][/\ (pc = "send" /\ rx_open /\ Len(queue) >= QueueCap)
               => UNCHANGED listen_vars
          /\ (pc = "send" /\ rx_open /\ pc' # "send")
               => /\ queue' = Append(queue, msg)
                  /\ Len(emitted') = Len(emitted) + 1
                  /\ emitted'[Len(emitted')].msg = msg
                  /\ RowOutcome(allowed_contacts, messages[idx]) = "emit"]_vars

\* C13 happens: listen stands at a send while the queue is full and the
\* Receiver is open
C13_Witness ==
    /\ pc = "send"
    /\ rx_open
    /\ Len(queue) = QueueCap
    /\ msg # NoMsg

(* --------------------------- C14: no position is skipped --------------- *)

\* the record at position i is an incoming one with a text, from a sender
\* the allow-list admits, and its text is not blank
Qualifies(i) ==
    /\ ~store[i].is_from_me
    /\ ~store[i].text_null
    /\ is_contact_allowed(allowed_contacts, store[i].handle)
    /\ trim(store[i].text) # <<>>

\* position i lies above the seeded cursor: the seed left 0, or i lies
\* above the cursor of now, which is never below its seed
AboveSeed(i) ==
    \/ seeded = "failed"
    \/ seeded = "ok" /\ i > last_rowid

\* the queue was given a message made from the row of record i
Delivered(i) ==
    \E k \in DOMAIN emitted : emitted[k].src = i /\ emitted[k].rowid = i

\* C14 as claimed: while the dispatcher keeps its Receiver, every record
\* above the seeded cursor with an admitted sender and a text that is not
\* blank is put on the queue in the end. Under SpecFair the store holds
\* the arrivals alone, at the positions 1..MaxArrivals.
C14_Claim ==
    \A i \in 1..MaxArrivals :
        ([]rx_open) =>
            []((i <= Len(store) /\ Qualifies(i) /\ AboveSeed(i))
                  => <>Delivered(i))

(* --------------------------- C15: send beside listen ------------------- *)

\* C15: a step in which a call of send returns, with Ok or with an error,
\* leaves the cursor, the emitted messages and all the rest of the state of
\* listen, the store and the queue as they were; and the cursor changes
\* only in a step of listen itself, at the seed or in the for body.
C15_SendLeavesListenAlone ==
    [][/\ (send_ret' # send_ret)
            => UNCHANGED <<listen_vars, allowed_contacts, store, arrived,
                           queue, rx_open>>
       /\ (last_rowid' # last_rowid)
            => (pc \in {"seed", "for"} /\ send_ret' = send_ret)]_vars

\* C15 happens: a call of send failed while listen, with its cursor moved
\* and a message emitted, stands in the middle of its for loop
C15_Witness ==
    /\ send_ret = "Err"
    /\ pc \in {"for", "send"}
    /\ idx > 1
    /\ last_rowid > 0
    /\ emitted # <<>>

(* --------------------------- C16: execute and remote failures ---------- *)

\* the call gets as far as the request: it has a key and a query
RequestIsMade(c) ==
    /\ c.arg_api_key = "key" \/ c.env_api_key = "key"
    /\ c.query = "q"

\* the request fails, or the body of the response cannot be read, or the
\* status of the response is not a success
RemoteFailure(c) ==
    \/ c.send = "err"
    \/ ~c.text_ok
    \/ ~StatusIsSuccess(c.status)

\* C16: once execute has returned: a request that was made and failed
\* remotely gave Ok(ToolResult) with success false, empty output and an
\* error; every ToolResult has success true exactly when its error is
\* absent; and Err was returned only without a request (no key, no query)
\* or for a body that came with a success status and is no JSON.
C16_RemoteFailuresAreResults ==
    LET c == weather.call
        r == weather.ret
    IN  r.kind # "none" =>
           /\ (RequestIsMade(c) /\ RemoteFailure(c))
                 => /\ r.kind = "Ok"
                    /\ ~r.success
                    /\ r.output = ""
                    /\ r.error # "None"
           /\ r.kind = "Ok" => (r.success <=> r.error = "None")
           /\ r.kind = "Err"
                 => \/ ~RequestIsMade(c)
                    \/ /\ ~RemoteFailure(c)
                       /\ c.body = "not_json"

\* C16 happens: the response has status 500 and a body that is no JSON, and
\* execute returned a ToolResult that reports the failure
C16_Witness ==
    /\ weather.ret.kind = "Ok"
    /\ ~weather.ret.success
    /\ weather.ret.error # "None"
    /\ RequestIsMade(weather.call)
    /\ weather.call.send = "ok"
    /\ weather.call.text_ok
    /\ weather.call.status = 500
    /\ weather.call.body = "not_json"

(* --------------------------- C17: the failed seed query ---------------- *)

\* the seed query printed an integer
SeedOutputIsInteger(db) == parse_i64(trim(MaxRowidStdout(db))).ok

\* C17: when the seed query cannot be run, or prints no integer, listen
\* goes on into the poll loop with the cursor 0; after a seed query that
\* could not be run the cursor stays 0 until a for loop moves it, listen
\* does not return an error, and a fetch that succeeds with the cursor still
\* 0 asks for the rows above 0 and gets them.
C17_FailedSeedStartsAtZero ==
    /\ [](seeded = "failed" => pc # "ret_err")
    /\ [][/\ (pc = "seed" /\ pc' # "seed"
                 /\ (seeded' = "failed" \/ ~SeedOutputIsInteger(store)))
               => (last_rowid' = 0 /\ pc' = "sleep")
          /\ (seeded = "failed" /\ last_rowid = 0 /\ last_rowid' # 0)
               => pc = "for"
          /\ (seeded = "failed" /\ last_rowid = 0 /\ pc = "fetch" /\ pc' = "for")
               => /\ since_rowid' = 0
                  /\ messages' = fetch_new_messages(store, 0)]_vars

\* C17 happens: the seed query could not be run over a store with history,
\* and the first fetch that succeeds has returned rows of that history
C17_Witness ==
    /\ seeded = "failed"
    /\ start_max > 0
    /\ pc = "for"
    /\ idx = 1
    /\ last_rowid = 0
    /\ since_rowid = 0
    /\ messages # <<>>
    /\ \A k \in DOMAIN origins : origins[k] <= start_max

(* --------------------------- C18: the two returns of listen ------------ *)

\* C18: listen that returned Err has made no seed query, has no cursor and
\* has emitted nothing; it returns Err from its start checks alone, and
\* never once it runs its loop, whatever the fetches give; and it returns
\* Ok only from a send whose Receiver is gone.
C18_TwoWaysToReturn ==
    /\ [](pc = "ret_err"
             => /\ seeded = "none"
                /\ last_rowid = 0
                /\ new_messages = "none"
                /\ emitted = <<>>)
    /\ [][/\ (pc # "ret_err" /\ pc' = "ret_err") => pc = "start"
          /\ Running => pc' # "ret_err"
          /\ (pc # "ret_ok" /\ pc' = "ret_ok") => (pc = "send" /\ ~rx_open)
          /\ pc \in {"ret_ok", "ret_err"} => UNCHANGED listen_vars]_vars

\* C18 happens: listen went through its loop, emitted a message, and
\* returned Ok from the send of a later one after the Receiver was dropped
C18_Witness ==
    /\ pc = "ret_ok"
    /\ ~rx_open
    /\ emitted # <<>>
    /\ idx <= Len(messages)
    /\ RowOutcome(allowed_contacts, messages[idx]) = "emit"

(* --------------------------- C19: messages and records ----------------- *)

\* the message m is what the record at position i should give
MessageOfRecord(m, i) ==
    /\ m.id = to_string(store[i].rowid)
    /\ m.sender = store[i].handle
    /\ m.content = store[i].text
    /\ m.channel = S_imessage

\* C19 as claimed: every message given to the queue is the message of a
\* record of the store: its position in decimal, its sender, its whole
\* text, and the channel "imessage"; and the cursor is never above the
\* largest position of the store.
C19_Claim ==
    /\ \A k \in DOMAIN emitted :
          \E i \in DOMAIN store : MessageOfRecord(emitted[k].msg, i)
    /\ last_rowid <= Len(store)

====
